---------------------------- MODULE Spec2Model ----------------------------
(***************************************************************************)
(* Model of the ingestion and upload pipelines of lain-io-api.             *)
(*                                                                         *)
(*   Spec       upload_embeddings.py : main(), the single-mode upload run  *)
(*              with its operator prompts and the final summary.           *)
(*   BatchSpec  generate_lain_personality.py : upload_to_canister_batch()  *)
(*              with its fallback to upload_single_embedding().            *)
(*   UploadSpec      an upload run in either of the two modes above.       *)
(*   ChunkSpec       extract_meaningful_content().                         *)
(*   CategorizeSpec  categorize_wiki_content().                            *)
(*   BuildSpec       process_wiki_file(), with parse_markdown_file().      *)
(*   IngestSpec      process_memex_wiki(), the pass over the wiki files.   *)
(*                                                                         *)
(* A step of a specification is one stretch of code between two blocking   *)
(* points (a remote call through subprocess.run, or input()).  The remote  *)
(* store, the dfx process and the operator are the environment: what they  *)
(* answer is chosen with \E from the sets below.                           *)
(***************************************************************************)
EXTENDS Integers, Sequences, FiniteSets, TLC

(* ----------------------------- bounds ---------------------------------- *)
\* largest number of records in lain_personality_embeddings.json
MaxRecords == 3
\* largest number of records handed to upload_to_canister_batch
MaxBatchRecords == 10
\* largest batch_size handed to upload_to_canister_batch
MaxBatchSize == 4
\* largest number of sentences of a text handed to the chunker
MaxSentences == 2
\* largest number of characters of one sentence of such a text
MaxBody == 27
\* largest number of parts of a path below the wiki's docs directory
MaxPathParts == 3
\* largest number of sections of a wiki file
MaxSections == 2
\* largest number of markdown files of the wiki
MaxFiles == 2

VARIABLES
    \* ---- upload_embeddings.py : main ----
    pc,                 \* position of main()
    nrecords,           \* len(embeddings)
    start_index,        \* line 59
    i,                  \* loop variable of line 64
    successful_uploads, \* line 61
    failed_uploads,     \* line 62
    message,            \* the message returned by the last failed call
    tally,              \* what lines 108-114 printed, NoTally before
    calls,              \* ghost: per record, invocations of delivery
    results,            \* ghost: per record, the classes of the results
    status,             \* ghost: per record, PENDING/IN_FLIGHT/SUCCESS/FAILED
    finished,           \* ghost: records whose loop iteration has ended
    aborted,            \* ghost: the loop was left by a break
    lastkind,           \* ghost: what subprocess.run did in the last call
    \* ---- generate_lain_personality.py : upload_to_canister_batch ----
    bpc,                \* position of upload_to_canister_batch()
    blen,               \* len(embeddings)
    batch_size,         \* parameter batch_size
    bi,                 \* loop variable of line 488
    bk,                 \* position of the fallback loop of line 513
    bsuccessful,        \* successful_uploads of line 486
    bret,               \* the return value, NoReturn before
    bsummary,           \* what line 522 printed, NoTally before
    oracle,             \* what single delivery of each record answers
    blog,               \* ghost: the remote calls made, oldest first
    \* ---- generate_lain_personality.py : extract_meaningful_content ----
    cpc,                \* "input" before the call, "done" after it
    cleaned,            \* the text after lines 271-276
    max_chars,          \* parameter max_chars
    chunks,             \* the list returned at line 303
    \* ---- generate_lain_personality.py : categorize_wiki_content ----
    kpc,                \* "input" before the call, "done" after it
    file_path,          \* parameter file_path
    category,           \* the category returned
    \* ---- generate_lain_personality.py : process_wiki_file ----
    wpc,                \* "input" before the call, "done" or "raised" after
    wfile,              \* the file that parameter file_path names
    embeddings,         \* the list returned at line 366
    \* ---- generate_lain_personality.py : process_memex_wiki ----
    dpc,                \* position of process_memex_wiki()
    markdown_files,     \* line 377: the documents found, in walk order
    di,                 \* position of the loop of line 388
    all_embeddings      \* line 376

uvars == <<pc, nrecords, start_index, i, successful_uploads, failed_uploads,
           message, tally, calls, results, status, finished, aborted,
           lastkind>>
bvars == <<bpc, blen, batch_size, bi, bk, bsuccessful, bret, bsummary,
           oracle, blog>>
cvars == <<cpc, cleaned, max_chars, chunks>>
\* the state of the ingestion pass, idle while an upload runs
kvars == <<kpc, file_path, category>>
dvars == <<dpc, markdown_files, di, all_embeddings>>
wvars == <<wpc, wfile, embeddings>>
ivars == <<cvars, kvars, wvars, dvars>>
vars == <<uvars, bvars, ivars>>

(* ------------------------- shared vocabulary --------------------------- *)
NoTally == [printed |-> FALSE]
NoReturn == "none"
NoMessage == [timeoutWord |-> FALSE, networkWord |-> FALSE]
\* the resume line 114 is printed only when failed_uploads > 0
NoResume == -1

Min(a, b) == IF a < b THEN a ELSE b

(***************************************************************************)
(* upload_embeddings.py                                                    *)
(***************************************************************************)

\* What subprocess.run can do at line 41: exit 0, run into timeout=30, exit
\* non-zero (check=True raises CalledProcessError), or raise anything else
\* (dfx cannot be run).  The text of stderr / of the exception is kept as
\* the two facts main() tests at line 86.
ProcessOutcomes ==
    {[kind |-> "exit0", timeoutWord |-> FALSE, networkWord |-> FALSE],
     [kind |-> "timeout", timeoutWord |-> FALSE, networkWord |-> FALSE]}
    \cup [kind : {"nonzero", "exception"},
          timeoutWord : BOOLEAN, networkWord : BOOLEAN]

\* upload_single_embedding, lines 40-48: the pair (success, message)
upload_single_embedding(o) ==
    CASE o.kind = "exit0" ->
           [success |-> TRUE, message |-> NoMessage]
      [] o.kind = "timeout" ->
           [success |-> FALSE,
            message |-> [timeoutWord |-> TRUE, networkWord |-> FALSE]]
      [] OTHER ->
           [success |-> FALSE,
            message |-> [timeoutWord |-> o.timeoutWord,
                         networkWord |-> o.networkWord]]

\* mutant of IsNetworkIssue: only "Timeout" in message is looked for
IsNetworkIssue_TimeoutOnly(m) == m.timeoutWord

\* line 86: "Timeout" in message or "network" in message.lower()
IsNetworkIssue(m) == m.timeoutWord \/ m.networkWord

\* the class of a returned pair, as the ghost history keeps it
ResultClass(r) ==
    IF r.success THEN "ok"
    ELSE IF IsNetworkIssue(r.message) THEN "transient" ELSE "persistent"

\* what the operator can type at a prompt
RawAnswers == {"y", "Y", " y ", "yes", "s", "n", ""}

\* .lower().strip() of lines 87 and 104
LowerStrip(raw) ==
    CASE raw = "Y" -> "y"
      [] raw = " y " -> "y"
      [] OTHER -> raw

Records == 0 .. (nrecords - 1)

\* main() has died of an exception: at line 59, at lines 72/32, at a prompt
Crashed == {"crashed_start", "crashed_encode", "crashed_input"}

\* mutant of NextRecord: the loop passes over the record after this one
NextRecord_SkipsOne ==
    /\ finished' = finished \cup {i}
    /\ i' = i + 2
    /\ pc' = "loop"
    /\ UNCHANGED aborted

\* the loop iteration of record i has ended and the loop goes on (fall
\* through to the end of the body, or continue)
NextRecord ==
    /\ finished' = finished \cup {i}
    /\ i' = i + 1
    /\ pc' = "loop"
    /\ UNCHANGED aborted

\* break at lines 101 and 106
Break ==
    /\ finished' = finished \cup {i}
    /\ aborted' = TRUE
    /\ pc' = "summary"
    /\ UNCHANGED i

UInit ==
    /\ pc = "start"
    /\ nrecords \in 0 .. MaxRecords
    /\ start_index = 0
    /\ i = 0
    /\ successful_uploads = 0
    /\ failed_uploads = 0
    /\ message = NoMessage
    /\ tally = NoTally
    /\ calls = [j \in Records |-> 0]
    /\ results = [j \in Records |-> <<>>]
    /\ status = [j \in Records |-> "PENDING"]
    /\ finished = {}
    /\ aborted = FALSE
    /\ lastkind = "none"

\* mutant of ReadStartIndex: the loop starts at 0 whatever was typed
ReadStartIndex_FromZero ==
    /\ pc = "start"
    /\ \E n \in 0 .. (MaxRecords + 1) :
         /\ start_index' = n
         /\ i' = 0
    /\ pc' = "loop"
    /\ UNCHANGED <<nrecords, successful_uploads, failed_uploads, message,
                   tally, calls, results, status, finished, aborted>>
    /\ UNCHANGED <<lastkind, bvars, ivars>>

\* line 59: start_index = int(input(...) or 0); the operator types a
\* non-negative integer, possibly one past the end of the list
ReadStartIndex ==
    /\ pc = "start"
    /\ \E n \in 0 .. (MaxRecords + 1) :
         /\ start_index' = n
         /\ i' = n
    /\ pc' = "loop"
    /\ UNCHANGED <<nrecords, successful_uploads, failed_uploads, message,
                   tally, calls, results, status, finished, aborted>>
    /\ UNCHANGED <<lastkind, bvars, ivars>>

\* line 59: input() raises (stdin closed) or int() rejects the text
StartIndexRaises ==
    /\ pc = "start"
    /\ pc' = "crashed_start"
    /\ UNCHANGED <<nrecords, start_index, i, successful_uploads,
                   failed_uploads, message, tally, calls, results, status,
                   finished, aborted>>
    /\ UNCHANGED <<lastkind, bvars, ivars>>

\* lines 64-74 up to subprocess.run: the record is encoded and sent
BeginUpload ==
    /\ pc = "loop"
    /\ i < nrecords
    /\ calls' = [calls EXCEPT ![i] = @ + 1]
    /\ status' = [status EXCEPT ![i] = "IN_FLIGHT"]
    /\ pc' = "call"
    /\ UNCHANGED <<nrecords, start_index, i, successful_uploads,
                   failed_uploads, message, tally, results, finished,
                   aborted>>
    /\ UNCHANGED <<lastkind, bvars, ivars>>

\* lines 72 and 32: a record without a field makes the progress line or
\* format_for_dfx raise, outside every try
EncodeRaises ==
    /\ pc = "loop"
    /\ i < nrecords
    /\ pc' = "crashed_encode"
    /\ UNCHANGED <<nrecords, start_index, i, successful_uploads,
                   failed_uploads, message, tally, calls, results, status,
                   finished, aborted>>
    /\ UNCHANGED <<lastkind, bvars, ivars>>

\* line 64: range(start_index, len(embeddings)) is exhausted
LoopExit ==
    /\ pc = "loop"
    /\ i >= nrecords
    /\ pc' = "summary"
    /\ UNCHANGED <<nrecords, start_index, i, successful_uploads,
                   failed_uploads, message, tally, calls, results, status,
                   finished, aborted>>
    /\ UNCHANGED <<lastkind, bvars, ivars>>

\* lines 74-86: the first call of record i returns
CallReturns ==
    /\ pc = "call"
    /\ \E o \in ProcessOutcomes :
         LET r == upload_single_embedding(o) IN
         /\ results' = [results EXCEPT ![i] = Append(@, ResultClass(r))]
         /\ lastkind' = o.kind
         /\ IF r.success
            THEN /\ successful_uploads' = successful_uploads + 1
                 /\ status' = [status EXCEPT ![i] = "SUCCESS"]
                 /\ NextRecord
                 /\ UNCHANGED <<failed_uploads, message>>
            ELSE /\ failed_uploads' = failed_uploads + 1
                 /\ status' = [status EXCEPT ![i] = "FAILED"]
                 /\ message' = r.message
                 /\ pc' = IF IsNetworkIssue(r.message)
                          THEN "ask_retry" ELSE "ask_continue"
                 /\ UNCHANGED <<successful_uploads, i, finished, aborted>>
    /\ UNCHANGED <<nrecords, start_index, tally, calls>>
    /\ UNCHANGED <<bvars, ivars>>

\* mutant of AnswerRetry: "s" puts the record back to be sent
AnswerRetry_SkipResets ==
    /\ pc = "ask_retry"
    /\ \E raw \in RawAnswers :
         LET retry == LowerStrip(raw) IN
         IF retry = "y"
         THEN /\ calls' = [calls EXCEPT ![i] = @ + 1]
              /\ status' = [status EXCEPT ![i] = "IN_FLIGHT"]
              /\ pc' = "retry_call"
              /\ UNCHANGED <<i, finished, aborted>>
         ELSE IF retry = "s"
         THEN /\ NextRecord
              /\ status' = [status EXCEPT ![i] = "PENDING"]
              /\ UNCHANGED calls
         ELSE /\ Break
              /\ UNCHANGED <<calls, status>>
    /\ UNCHANGED <<nrecords, start_index, successful_uploads, failed_uploads,
                   message, tally, results>>
    /\ UNCHANGED <<lastkind, bvars, ivars>>

\* lines 87-101: the operator answers the retry prompt
AnswerRetry ==
    /\ pc = "ask_retry"
    /\ \E raw \in RawAnswers :
         LET retry == LowerStrip(raw) IN
         IF retry = "y"
         THEN /\ calls' = [calls EXCEPT ![i] = @ + 1]
              /\ status' = [status EXCEPT ![i] = "IN_FLIGHT"]
              /\ pc' = "retry_call"
              /\ UNCHANGED <<i, finished, aborted>>
         ELSE IF retry = "s"
         THEN /\ NextRecord
              /\ UNCHANGED <<calls, status>>
         ELSE /\ Break
              /\ UNCHANGED <<calls, status>>
    /\ UNCHANGED <<nrecords, start_index, successful_uploads, failed_uploads,
                   message, tally, results>>
    /\ UNCHANGED <<lastkind, bvars, ivars>>

\* mutant of RetryReturns: line 93 (failed_uploads -= 1) is missing
RetryReturns_NoDecrement ==
    /\ pc = "retry_call"
    /\ \E o \in ProcessOutcomes :
         LET r == upload_single_embedding(o) IN
         /\ results' = [results EXCEPT ![i] = Append(@, ResultClass(r))]
         /\ lastkind' = o.kind
         /\ IF r.success
            THEN /\ successful_uploads' = successful_uploads + 1
                 /\ status' = [status EXCEPT ![i] = "SUCCESS"]
                 /\ UNCHANGED <<message, failed_uploads>>
            ELSE /\ message' = r.message
                 /\ status' = [status EXCEPT ![i] = "FAILED"]
                 /\ UNCHANGED <<successful_uploads, failed_uploads>>
    /\ NextRecord
    /\ UNCHANGED <<nrecords, start_index, tally, calls>>
    /\ UNCHANGED <<bvars, ivars>>

\* mutant of RetryReturns: a failed retry of a network issue asks again
RetryReturns_AsksAgain ==
    /\ pc = "retry_call"
    /\ \E o \in ProcessOutcomes :
         LET r == upload_single_embedding(o) IN
         /\ results' = [results EXCEPT ![i] = Append(@, ResultClass(r))]
         /\ lastkind' = o.kind
         /\ IF r.success
            THEN /\ successful_uploads' = successful_uploads + 1
                 /\ failed_uploads' = failed_uploads - 1
                 /\ status' = [status EXCEPT ![i] = "SUCCESS"]
                 /\ NextRecord
                 /\ UNCHANGED message
            ELSE /\ message' = r.message
                 /\ status' = [status EXCEPT ![i] = "FAILED"]
                 /\ IF IsNetworkIssue(r.message)
                    THEN /\ pc' = "ask_retry"
                         /\ UNCHANGED <<i, finished, aborted>>
                    ELSE NextRecord
                 /\ UNCHANGED <<successful_uploads, failed_uploads>>
    /\ UNCHANGED <<nrecords, start_index, tally, calls>>
    /\ UNCHANGED <<bvars, ivars>>

\* lines 90-96: the retry returns; the loop goes on either way
RetryReturns ==
    /\ pc = "retry_call"
    /\ \E o \in ProcessOutcomes :
         LET r == upload_single_embedding(o) IN
         /\ results' = [results EXCEPT ![i] = Append(@, ResultClass(r))]
         /\ lastkind' = o.kind
         /\ IF r.success
            THEN /\ successful_uploads' = successful_uploads + 1
                 /\ failed_uploads' = failed_uploads - 1
                 /\ status' = [status EXCEPT ![i] = "SUCCESS"]
                 /\ UNCHANGED message
            ELSE /\ message' = r.message
                 /\ status' = [status EXCEPT ![i] = "FAILED"]
                 /\ UNCHANGED <<successful_uploads, failed_uploads>>
    /\ NextRecord
    /\ UNCHANGED <<nrecords, start_index, tally, calls>>
    /\ UNCHANGED <<bvars, ivars>>

\* mutant of AnswerContinue: "y" sends the same record again
AnswerContinue_Resends ==
    /\ pc = "ask_continue"
    /\ \E raw \in RawAnswers :
         LET continue_choice == LowerStrip(raw) IN
         IF continue_choice \in {"y", "yes"}
         THEN /\ calls' = [calls EXCEPT ![i] = @ + 1]
              /\ status' = [status EXCEPT ![i] = "IN_FLIGHT"]
              /\ pc' = "retry_call"
              /\ UNCHANGED <<i, finished, aborted>>
         ELSE /\ Break
              /\ UNCHANGED <<calls, status>>
    /\ UNCHANGED <<nrecords, start_index, successful_uploads, failed_uploads,
                   message, tally, results>>
    /\ UNCHANGED <<lastkind, bvars, ivars>>

\* lines 104-106: the operator answers the continue prompt
AnswerContinue ==
    /\ pc = "ask_continue"
    /\ \E raw \in RawAnswers :
         LET continue_choice == LowerStrip(raw) IN
         IF continue_choice \in {"y", "yes"} THEN NextRecord ELSE Break
    /\ UNCHANGED <<nrecords, start_index, successful_uploads, failed_uploads,
                   message, tally, calls, results, status>>
    /\ UNCHANGED <<lastkind, bvars, ivars>>

\* lines 87 and 104: input() raises (EOFError: stdin is closed)
InputRaises ==
    /\ pc \in {"ask_retry", "ask_continue"}
    /\ pc' = "crashed_input"
    /\ UNCHANGED <<nrecords, start_index, i, successful_uploads,
                   failed_uploads, message, tally, calls, results, status,
                   finished, aborted>>
    /\ UNCHANGED <<lastkind, bvars, ivars>>

\* lines 108-114
PrintSummary ==
    /\ pc = "summary"
    /\ tally' = [printed |-> TRUE,
                 successful |-> successful_uploads,
                 failed |-> failed_uploads,
                 total |-> successful_uploads + failed_uploads,
                 resume |-> IF failed_uploads > 0
                            THEN successful_uploads + start_index
                            ELSE NoResume]
    /\ pc' = "done"
    /\ UNCHANGED <<nrecords, start_index, i, successful_uploads,
                   failed_uploads, message, calls, results, status,
                   finished, aborted>>
    /\ UNCHANGED <<lastkind, bvars, ivars>>

(***************************************************************************)
(* Properties of the single-mode upload run (Spec)                         *)
(***************************************************************************)

\* the remote store has accepted record j in this run
Delivered(j) == \E p \in 1 .. Len(results[j]) : results[j][p] = "ok"

\* records whose first call failed and whose iteration has not ended yet
\* (waiting at a prompt, or being retried, or left there by an exception)
OpenFailures == {j \in Records \ finished : Len(results[j]) > 0}

\* once main() is past the loop, or has died, no delivery is invoked
NoCallAfterEnd ==
    [][(pc \in {"summary", "done"} \cup Crashed) => calls' = calls]_vars

\* C1: every record whose processing has finished has added exactly 1 to
\* exactly one of successful_uploads / failed_uploads (a record that fails
\* and succeeds on retry included): the counters are the numbers of finished
\* records that ended as SUCCESS and as FAILED (a record still at its prompt
\* or retry is the one failure counted on top), their sum between records
\* is the number of records processed, and neither is ever negative.
C1_CountersMatchProcessed ==
    /\ successful_uploads >= 0
    /\ failed_uploads >= 0
    /\ \A j \in finished : status[j] \in {"SUCCESS", "FAILED"}
    /\ successful_uploads =
         Cardinality({j \in finished : status[j] = "SUCCESS"})
    /\ failed_uploads =
         Cardinality({j \in finished : status[j] = "FAILED"})
         + Cardinality(OpenFailures)
    /\ pc \in {"loop", "summary", "done"} =>
         successful_uploads + failed_uploads = Cardinality(finished)

C1_Witness ==
    /\ pc = "done"
    /\ Cardinality(finished) >= 2
    /\ failed_uploads >= 1
    /\ \E j \in finished : results[j] = <<"transient", "ok">>

\* C2 as claimed: a run started with start_index = n <= len(records) has,
\* at its end, processed exactly len(records) - n records and has invoked
\* delivery for no index < n.
C2_ProcessesExactSuffix ==
    (pc = "done" /\ start_index <= nrecords) =>
        /\ Cardinality(finished) = nrecords - start_index
        /\ \A j \in Records : j < start_index => calls[j] = 0

\* C2 as amended: a run started with start_index = n <= len(records) never
\* invokes delivery for an index < n and processes only records of
\* n .. len(records)-1, so at most len(records) - n; a run that reaches its
\* summary without an operator abort has processed exactly those
\* len(records) - n records.
C2_ProcessesSuffix ==
    (pc # "start" /\ start_index <= nrecords) =>
        /\ \A j \in Records : j < start_index => calls[j] = 0
        /\ finished \subseteq start_index .. (nrecords - 1)
        /\ Cardinality(finished) <= nrecords - start_index
        /\ (pc = "done" /\ ~aborted) =>
              /\ finished = start_index .. (nrecords - 1)
              /\ Cardinality(finished) = nrecords - start_index

C2_Witness ==
    /\ pc = "done"
    /\ ~aborted
    /\ start_index >= 1
    /\ nrecords - start_index >= 2
    /\ Cardinality(finished) = nrecords - start_index

\* C3: at the end of a run that had a failure, the reported resume index
\* (successful_uploads + start_index) is the exact index to resume from:
\* every record in [start_index, reported) has been delivered, and the
\* record at the reported index, if there is one, has not.
C3_ResumeIndexExact ==
    (pc = "done" /\ tally.failed > 0) =>
        /\ \A j \in start_index .. (tally.resume - 1) :
              j \in Records /\ Delivered(j)
        /\ tally.resume \in Records => ~Delivered(tally.resume)

\* C7: at the retry prompt the step taken is exactly one of: the same
\* record is sent once more (retry), the loop moves to the next record
\* (skip), the loop is left (abort) -- or input() raises and main() dies
\* without a decision; the retried call is followed by the next record
\* whatever it returns, after the loop no delivery is invoked, and no
\* record is ever sent more than twice.
C7_RetryOutcome ==
    /\ pc' = "retry_call"
    /\ i' = i
    /\ calls' = [calls EXCEPT ![i] = @ + 1]

C7_SkipOutcome ==
    /\ pc' = "loop"
    /\ i' = i + 1
    /\ calls' = calls

C7_AbortOutcome ==
    /\ pc' = "summary"
    /\ aborted'
    /\ calls' = calls

C7_RetrySkipAbort ==
    /\ [](\A j \in Records : calls[j] <= 2)
    /\ [][pc = "ask_retry" =>
            \/ C7_RetryOutcome
            \/ C7_SkipOutcome
            \/ C7_AbortOutcome
            \/ (pc' = "crashed_input" /\ calls' = calls)]_vars
    /\ [][pc = "retry_call" =>
            (pc' = "loop" /\ i' = i + 1 /\ calls' = calls)]_vars
    /\ NoCallAfterEnd

C7_Witness ==
    /\ pc = "loop"
    /\ \E j \in finished :
         /\ calls[j] = 2
         /\ results[j] = <<"transient", "transient">>
    /\ \E j \in finished : results[j] = <<"transient">>

\* C8: a record whose delivery failed with a non-transient error is never
\* sent again: at the continue prompt the step taken invokes no delivery and
\* leads to the next record (continue), to the end of the loop (abort) -- or
\* input() raises and main() dies; after the loop no delivery is invoked.
C8_PersistentNeverResent ==
    /\ [](\A j \in Records :
            (Len(results[j]) > 0 /\ results[j][1] = "persistent") =>
                calls[j] = 1)
    /\ [][pc = "ask_continue" =>
            /\ calls' = calls
            /\ \/ (pc' = "loop" /\ i' = i + 1)
               \/ (pc' = "summary" /\ aborted')
               \/ pc' = "crashed_input"]_vars
    /\ NoCallAfterEnd

C8_Witness ==
    /\ pc = "call"
    /\ i >= 1
    /\ results[i - 1] = <<"persistent">>
    /\ calls[i - 1] = 1

\* C9: every execution of main() that has ended -- normally, by operator
\* abort, or by an exception raised while encoding a record, delivering it
\* or reading an operator decision -- has emitted the tally.
C9_TallyBeforeExit ==
    pc \in {"done", "crashed_encode", "crashed_input"} => tally.printed

BIdle ==
    /\ bpc = "idle"
    /\ blen = 0
    /\ batch_size = 1
    /\ bi = 0
    /\ bk = 0
    /\ bsuccessful = 0
    /\ bret = NoReturn
    /\ bsummary = NoTally
    /\ oracle = <<>>
    /\ blog = <<>>

CIdle ==
    /\ cpc = "idle"
    /\ cleaned = <<>>
    /\ max_chars = 0
    /\ chunks = <<>>

KIdle ==
    /\ kpc = "idle"
    /\ file_path = <<>>
    /\ category = "none"

DIdle ==
    /\ dpc = "idle"
    /\ markdown_files = <<>>
    /\ di = 0
    /\ all_embeddings = <<>>

WIdle ==
    /\ wpc = "idle"
    /\ wfile = <<>>
    /\ embeddings = <<>>

IIdle == CIdle /\ KIdle /\ WIdle /\ DIdle

Init == UInit /\ BIdle /\ IIdle

UNext ==
    \/ ReadStartIndex
    \/ StartIndexRaises
    \/ BeginUpload
    \/ EncodeRaises
    \/ LoopExit
    \/ CallReturns
    \/ AnswerRetry
    \/ RetryReturns
    \/ AnswerContinue
    \/ InputRaises
    \/ PrintSummary

Next == UNext

Spec == Init /\ [][Next]_vars

(***************************************************************************)
(* generate_lain_personality.py : upload_to_canister_batch                 *)
(*                                                                         *)
(* The records are built by generate_embeddings_for_channel and            *)
(* generate_wiki_embeddings in the same process, so format_for_dfx finds   *)
(* every field it reads.                                                   *)
(***************************************************************************)

BRecords == 0 .. (blen - 1)

\* What subprocess.run can do at line 503: exit 0, exit non-zero
\* (CalledProcessError), fail to start dfx with errno 7 "Argument list too
\* long", fail to start it with another OSError.
BatchOutcomes == {"exit0", "nonzero", "e2big", "oserror"}

\* What subprocess.run can do at line 536.
SingleOutcomes == {"exit0", "nonzero", "oserror"}

\* generate_lain_personality.upload_single_embedding, lines 535-541: True,
\* False, or the exception it does not catch
gen_upload_single_embedding(o) ==
    CASE o = "exit0" -> "True"
      [] o = "nonzero" -> "False"
      [] OTHER -> "raises"

\* batch = embeddings[i:i + batch_size], as the index range [lo, hi)
BatchEnd(lo) == Min(lo + batch_size, blen)

BatchCall(lo) ==
    [kind |-> "batch", lo |-> lo, hi |-> BatchEnd(lo), res |-> "pending"]

SingleCall(j) ==
    [kind |-> "single", lo |-> j, hi |-> j + 1, res |-> "pending"]

\* the call in flight is the last of the log; it returns res
Answered(log, res) == [log EXCEPT ![Len(log)].res = res]

BInit ==
    /\ bpc = "bloop"
    /\ blen \in 0 .. MaxBatchRecords
    /\ batch_size \in 1 .. MaxBatchSize
    /\ bi = 0
    /\ bk = 0
    /\ bsuccessful = 0
    /\ bret = NoReturn
    /\ bsummary = NoTally
    /\ oracle = [j \in BRecords |-> "unasked"]
    /\ blog = <<>>

\* mutant of BatchBegin: once a batch was too large, the batches after it
\* are sent record by record too
BatchBegin_StickyFallback ==
    /\ bpc = "bloop"
    /\ bi < blen
    /\ IF \E p \in 1 .. Len(blog) : blog[p].res = "E2BIG"
       THEN /\ \E answers \in [bi .. (BatchEnd(bi) - 1) -> SingleOutcomes] :
                 oracle' = [j \in BRecords |->
                              IF j \in DOMAIN answers
                              THEN answers[j] ELSE oracle[j]]
            /\ bk' = bi
            /\ blog' = Append(blog, SingleCall(bi))
            /\ bpc' = "single_call"
       ELSE /\ blog' = Append(blog, BatchCall(bi))
            /\ bpc' = "batch_call"
            /\ UNCHANGED <<bk, oracle>>
    /\ UNCHANGED <<blen, batch_size, bi, bsuccessful, bret, bsummary>>
    /\ UNCHANGED <<uvars, ivars>>

\* lines 488-503 up to subprocess.run: the next batch is encoded and sent
BatchBegin ==
    /\ bpc = "bloop"
    /\ bi < blen
    /\ blog' = Append(blog, BatchCall(bi))
    /\ bpc' = "batch_call"
    /\ UNCHANGED <<blen, batch_size, bi, bk, bsuccessful, bret, bsummary,
                   oracle>>
    /\ UNCHANGED <<uvars, ivars>>

\* lines 488, 522-523: range(0, len(embeddings), batch_size) is exhausted
BatchLoopExit ==
    /\ bpc = "bloop"
    /\ bi >= blen
    /\ bsummary' = [printed |-> TRUE,
                    successful |-> bsuccessful,
                    total |-> blen]
    /\ bret' = (bsuccessful = blen)
    /\ bpc' = "returned"
    /\ UNCHANGED <<blen, batch_size, bi, bk, bsuccessful, oracle, blog>>
    /\ UNCHANGED <<uvars, ivars>>

\* mutant of BatchReturns: errno 7 is handled like any other OSError
BatchReturns_NoFallback ==
    /\ bpc = "batch_call"
    /\ \E o \in BatchOutcomes :
         CASE o = "exit0" ->
                /\ blog' = Answered(blog, "ok")
                /\ bsuccessful' = bsuccessful + (BatchEnd(bi) - bi)
                /\ bi' = bi + batch_size
                /\ bpc' = "bloop"
                /\ UNCHANGED <<bk, bret, oracle>>
           [] o = "nonzero" ->
                /\ blog' = Answered(blog, "CalledProcessError")
                /\ bret' = FALSE
                /\ bpc' = "returned"
                /\ UNCHANGED <<bi, bk, bsuccessful, oracle>>
           [] o = "e2big" ->
                /\ blog' = Answered(blog, "E2BIG")
                /\ bret' = FALSE
                /\ bpc' = "returned"
                /\ UNCHANGED <<bi, bk, bsuccessful, oracle>>
           [] o = "oserror" ->
                /\ blog' = Answered(blog, "OSError")
                /\ bret' = FALSE
                /\ bpc' = "returned"
                /\ UNCHANGED <<bi, bk, bsuccessful, oracle>>
    /\ UNCHANGED <<blen, batch_size, bsummary>>
    /\ UNCHANGED <<uvars, ivars>>

\* lines 503-520: the batch call returns.  On errno 7 the fallback loop of
\* line 513 starts at once with the first record of the batch; what single
\* delivery of each record of the batch will answer is fixed here.
BatchReturns ==
    /\ bpc = "batch_call"
    /\ \E o \in BatchOutcomes :
         CASE o = "exit0" ->
                /\ blog' = Answered(blog, "ok")
                /\ bsuccessful' = bsuccessful + (BatchEnd(bi) - bi)
                /\ bi' = bi + batch_size
                /\ bpc' = "bloop"
                /\ UNCHANGED <<bk, bret, oracle>>
           [] o = "nonzero" ->
                /\ blog' = Answered(blog, "CalledProcessError")
                /\ bret' = FALSE
                /\ bpc' = "returned"
                /\ UNCHANGED <<bi, bk, bsuccessful, oracle>>
           [] o = "e2big" ->
                /\ \E answers \in [bi .. (BatchEnd(bi) - 1) -> SingleOutcomes] :
                     oracle' = [j \in BRecords |->
                                  IF j \in DOMAIN answers
                                  THEN answers[j] ELSE oracle[j]]
                /\ blog' = Append(Answered(blog, "E2BIG"), SingleCall(bi))
                /\ bk' = bi
                /\ bpc' = "single_call"
                /\ UNCHANGED <<bi, bsuccessful, bret>>
           [] o = "oserror" ->
                /\ blog' = Answered(blog, "OSError")
                /\ bret' = FALSE
                /\ bpc' = "returned"
                /\ UNCHANGED <<bi, bk, bsuccessful, oracle>>
    /\ UNCHANGED <<blen, batch_size, bsummary>>
    /\ UNCHANGED <<uvars, ivars>>

\* mutant of SingleReturns: a failed single delivery is passed over and the
\* fallback loop goes on
SingleReturns_IgnoresFailure ==
    /\ bpc = "single_call"
    /\ LET r == gen_upload_single_embedding(oracle[bk]) IN
       CASE r = "raises" ->
              /\ blog' = Answered(blog, "OSError")
              /\ bpc' = "raised"
              /\ UNCHANGED <<bi, bk, bsuccessful, bret>>
         [] OTHER ->
              /\ bsuccessful' = bsuccessful + (IF r = "True" THEN 1 ELSE 0)
              /\ IF bk + 1 < BatchEnd(bi)
                 THEN /\ blog' = Append(Answered(blog,
                                   IF r = "True" THEN "ok"
                                   ELSE "CalledProcessError"),
                                   SingleCall(bk + 1))
                      /\ bk' = bk + 1
                      /\ UNCHANGED <<bi, bpc>>
                 ELSE /\ blog' = Answered(blog,
                                   IF r = "True" THEN "ok"
                                   ELSE "CalledProcessError")
                      /\ bi' = bi + batch_size
                      /\ bpc' = "bloop"
                      /\ UNCHANGED bk
              /\ UNCHANGED bret
    /\ UNCHANGED <<blen, batch_size, bsummary, oracle>>
    /\ UNCHANGED <<uvars, ivars>>

\* lines 513-517: a single delivery of the fallback loop returns
SingleReturns ==
    /\ bpc = "single_call"
    /\ LET r == gen_upload_single_embedding(oracle[bk]) IN
       CASE r = "True" ->
              /\ bsuccessful' = bsuccessful + 1
              /\ IF bk + 1 < BatchEnd(bi)
                 THEN /\ blog' = Append(Answered(blog, "ok"),
                                        SingleCall(bk + 1))
                      /\ bk' = bk + 1
                      /\ UNCHANGED <<bi, bpc>>
                 ELSE /\ blog' = Answered(blog, "ok")
                      /\ bi' = bi + batch_size
                      /\ bpc' = "bloop"
                      /\ UNCHANGED bk
              /\ UNCHANGED bret
         [] r = "False" ->
              /\ blog' = Answered(blog, "CalledProcessError")
              /\ bret' = FALSE
              /\ bpc' = "returned"
              /\ UNCHANGED <<bi, bk, bsuccessful>>
         [] OTHER ->
              /\ blog' = Answered(blog, "OSError")
              /\ bpc' = "raised"
              /\ UNCHANGED <<bi, bk, bsuccessful, bret>>
    /\ UNCHANGED <<blen, batch_size, bsummary, oracle>>
    /\ UNCHANGED <<uvars, ivars>>

\* line 503: subprocess.run is called without a timeout; when the dfx process
\* never exits the call does not return
BatchNeverAnswers ==
    /\ bpc = "batch_call"
    /\ bpc' = "batch_blocked"
    /\ UNCHANGED <<blen, batch_size, bi, bk, bsuccessful, bret, bsummary,
                   oracle, blog>>
    /\ UNCHANGED <<uvars, ivars>>

\* line 536: the same for a single delivery of the fallback loop
SingleNeverAnswers ==
    /\ bpc = "single_call"
    /\ bpc' = "single_blocked"
    /\ UNCHANGED <<blen, batch_size, bi, bk, bsuccessful, bret, bsummary,
                   oracle, blog>>
    /\ UNCHANGED <<uvars, ivars>>

(***************************************************************************)
(* Properties of upload_to_canister_batch (BatchSpec)                      *)
(***************************************************************************)

\* upload_to_canister_batch has ended: it returned, or an exception left it
BatchEnded == bpc \in {"returned", "raised"}

\* positions of the log holding a batch call that failed with errno 7
Oversized == {p \in 1 .. Len(blog) : blog[p].res = "E2BIG"}

\* the single calls made for the batch call at position p: the run of
\* single calls that follows it in the log
SinglesAfter(p) ==
    {q \in (p + 1) .. Len(blog) :
        \A m \in (p + 1) .. q : blog[m].kind = "single"}

\* the records of the batch at position p that were sent singly
SentSingly(p) == {blog[q].lo : q \in SinglesAfter(p)}

\* the fallback of the batch at position p is over
FallbackOver(p) ==
    \A q \in SinglesAfter(p) : blog[q].res # "pending"

\* the starts of the batches of range(0, len(embeddings), batch_size)
BatchStarts == {b \in BRecords : b % batch_size = 0}

RECURSIVE IndividualOutcome(_, _, _)
IndividualOutcome(answers, lo, hi) ==
    IF lo >= hi THEN [success |-> TRUE, delivered |-> 0]
    ELSE LET rest == IndividualOutcome(answers, lo + 1, hi) IN
         [success |-> answers[lo] = "exit0" /\ rest.success,
          delivered |-> (IF answers[lo] = "exit0" THEN 1 ELSE 0)
                        + rest.delivered]

\* the outcome the function recorded for the batch at position p, once its
\* fallback is over: success when the loop went on to the batch after it or
\* to the final summary, failure when the function ended in the fallback
RecordedSuccess(p) ==
    LET n == Cardinality(SinglesAfter(p)) IN
    \/ p + n < Len(blog)
    \/ bpc = "bloop"
    \/ bsummary.printed

\* successful_uploads as the log accounts for it
LoggedSuccessful ==
    LET OkBatches == {p \in 1 .. Len(blog) :
                        blog[p].kind = "batch" /\ blog[p].res = "ok"}
        OkSingles == {p \in 1 .. Len(blog) :
                        blog[p].kind = "single" /\ blog[p].res = "ok"}
        covered == UNION {blog[p].lo .. (blog[p].hi - 1) : p \in OkBatches}
    IN Cardinality(covered) + Cardinality(OkSingles)

C10_FailuresReported ==
    (BatchEnded /\ \E p \in 1 .. Len(blog) :
                      blog[p].res \in {"CalledProcessError", "OSError"}) =>
        bsummary.printed

UIdle ==
    /\ pc = "idle"
    /\ nrecords = 0
    /\ start_index = 0
    /\ i = 0
    /\ successful_uploads = 0
    /\ failed_uploads = 0
    /\ message = NoMessage
    /\ tally = NoTally
    /\ calls = <<>>
    /\ results = <<>>
    /\ status = <<>>
    /\ finished = {}
    /\ aborted = FALSE
    /\ lastkind = "none"

BatchInit == BInit /\ UIdle /\ IIdle

BatchNext ==
    \/ BatchBegin
    \/ BatchLoopExit
    \/ BatchReturns
    \/ SingleReturns
    \/ BatchNeverAnswers
    \/ SingleNeverAnswers

BatchSpec == BatchInit /\ [][BatchNext]_vars

\* C15: every remote call is bounded by a timeout, so that a call the remote
\* side never answers ends as a failure: no call of a batch-mode run blocks
\* without end.
C15_NoCallBlocksForever ==
    bpc \notin {"batch_blocked", "single_blocked"}

(***************************************************************************)
(* generate_lain_personality.py : extract_meaningful_content               *)
(*                                                                         *)
(* The text is taken after the cleaning of lines 271-276: no markup, single *)
(* spaces, no space at either end.  It is kept as what line 285 splits it  *)
(* into: its sentences in order, each with the number of characters of the *)
(* stripped sentence (body; 0 for an empty piece) and the number of        *)
(* characters up to the next sentence (gap: the run of . ! ? and the space *)
(* around it; 0 when the text ends without punctuation).                   *)
(***************************************************************************)

\* line 303: chunks of at most this many characters are dropped
MinChunkChars == 50

CleanedTexts ==
    UNION {{t \in [1 .. n -> [body : 0 .. MaxBody, gap : 0 .. 2]] :
               /\ \A k \in 1 .. (n - 1) : t[k].gap >= 1
               /\ (n = 0 \/ t[n].gap <= 1)} : n \in 0 .. MaxSentences}

\* the values of max_chars tried: just above the floor of line 303
MaxCharsChoices == {MinChunkChars + 2, MinChunkChars + 5}

\* len(cleaned)
RECURSIVE TextLen(_)
TextLen(text) ==
    IF text = <<>> THEN 0
    ELSE Head(text).body + Head(text).gap + TextLen(Tail(text))

\* the non-empty sentences of the text, as line 285-291 keeps them
RECURSIVE Sentences(_)
Sentences(text) ==
    IF text = <<>> THEN <<>>
    ELSE IF Head(text).body = 0 THEN Sentences(Tail(text))
    ELSE <<Head(text).body>> \o Sentences(Tail(text))

\* current_chunk = "": no characters, no sentence
EmptyChunk == [len |-> 0, sentences |-> <<>>]

\* current_chunk.strip() of lines 297 and 301: the sentences joined, each
\* followed by ". ", without the last space
Closed(current) ==
    [len |-> current.len - 1, sentences |-> current.sentences,
     whole |-> FALSE]

\* lines 288-301: the loop over the sentences and the last chunk
RECURSIVE Accumulate(_, _, _, _)
Accumulate(sentences, current, out, max) ==
    IF sentences = <<>>
    THEN IF current.len > 0 THEN Append(out, Closed(current)) ELSE out
    ELSE LET sentence == Head(sentences) IN
         IF current.len + sentence <= max
         THEN Accumulate(Tail(sentences),
                         [len |-> current.len + sentence + 2,
                          sentences |-> Append(current.sentences, sentence)],
                         out, max)
         ELSE Accumulate(Tail(sentences),
                         [len |-> sentence + 2, sentences |-> <<sentence>>],
                         IF current.len > 0
                         THEN Append(out, Closed(current)) ELSE out,
                         max)

\* line 303: len(chunk.strip()) > 50
LongEnough(chunk) == chunk.len > MinChunkChars

\* the cleaned text itself, as the chunk of line 282
WholeChunk(text) ==
    [len |-> TextLen(text), sentences |-> Sentences(text), whole |-> TRUE]

\* mutant of extract_meaningful_content: the filter of line 303 is missing
extract_meaningful_content_NoFloor(text, max) ==
    IF TextLen(text) <= max
    THEN <<WholeChunk(text)>>
    ELSE Accumulate(Sentences(text), EmptyChunk, <<>>, max)

\* lines 281-303
extract_meaningful_content(text, max) ==
    SelectSeq(IF TextLen(text) <= max
              THEN <<WholeChunk(text)>>
              ELSE Accumulate(Sentences(text), EmptyChunk, <<>>, max),
              LongEnough)

ChunkerInit ==
    /\ cpc = "input"
    /\ cleaned \in CleanedTexts
    /\ max_chars \in MaxCharsChoices
    /\ chunks = <<>>

ExtractMeaningfulContent ==
    /\ cpc = "input"
    /\ chunks' = extract_meaningful_content(cleaned, max_chars)
    /\ cpc' = "done"
    /\ UNCHANGED <<cleaned, max_chars>>
    /\ UNCHANGED <<uvars, bvars, kvars, wvars, dvars>>

ChunkInit == ChunkerInit /\ UIdle /\ BIdle /\ KIdle /\ WIdle /\ DIdle

ChunkNext == ExtractMeaningfulContent

ChunkSpec == ChunkInit /\ [][ChunkNext]_vars

(***************************************************************************)
(* Properties of the chunker (ChunkSpec)                                   *)
(***************************************************************************)

\* C11: every chunk returned has at most max_chars characters, unless it
\* consists of a single sentence that itself has more than max_chars
\* characters.
C11_ChunkWithinMax ==
    cpc = "done" =>
        \A p \in 1 .. Len(chunks) :
            \/ chunks[p].len <= max_chars
            \/ /\ Len(chunks[p].sentences) = 1
               /\ chunks[p].sentences[1] > max_chars

DocsRoot == "/Users/laincorp/LainCorp/memex-wiki/docs/"

PathParts ==
    {"projects/", "guides/", "notes", ".md", ".txt",
     "icp-overview", "development", "architecture", "deployment",
     "best-practices", "README", "contributing", "glossary", "faq",
     "resources"}

\* the paths of n parts handed to categorize_wiki_content: files below the
\* docs directory
FilePaths(n) == {<<DocsRoot>> \o rel : rel \in [1 .. n -> PathParts]}

\* a pattern "before.*after$" as [before, after]; a pattern without .* has
\* an empty before
EndsWith(stem) == [before |-> <<>>, after |-> <<stem, ".md">>]

\* lines 175-203, in declaration order
WIKI_CATEGORIZATION ==
    << [category |-> "project-docs",
        patterns |-> << [before |-> <<"projects/">>, after |-> <<".md">>],
                        [before |-> <<>>,
                         after |-> <<"projects/", "README", ".md">>] >>],
       [category |-> "tech-guides",
        patterns |-> << EndsWith("icp-overview"), EndsWith("development"),
                        EndsWith("architecture"), EndsWith("deployment"),
                        EndsWith("best-practices") >>],
       [category |-> "meta-docs",
        patterns |-> << EndsWith("README"), EndsWith("contributing"),
                        EndsWith("glossary"), EndsWith("faq"),
                        EndsWith("resources") >>] >>

\* line 259: os.path.relpath of a file below the docs directory
relpath(path) == Tail(path)

\* line 263: re.search(pattern, relative_path)
search(pattern, path) ==
    LET na == Len(pattern.after)
        nb == Len(pattern.before)
    IN /\ na <= Len(path)
       /\ SubSeq(path, Len(path) - na + 1, Len(path)) = pattern.after
       /\ \/ nb = 0
          \/ \E p \in 1 .. (Len(path) - na - nb + 1) :
                SubSeq(path, p, p + nb - 1) = pattern.before

\* lines 262-264: the loop over the patterns of one rule
RECURSIVE AnyPattern(_, _)
AnyPattern(patterns, path) ==
    IF patterns = <<>> THEN FALSE
    ELSE IF search(Head(patterns), path) THEN TRUE
    ELSE AnyPattern(Tail(patterns), path)

\* lines 261-266: the loop over the rules
RECURSIVE FirstCategory(_, _)
FirstCategory(rules, path) ==
    IF rules = <<>> THEN "general-docs"
    ELSE IF AnyPattern(Head(rules).patterns, path) THEN Head(rules).category
    ELSE FirstCategory(Tail(rules), path)

\* mutant of categorize_wiki_content: the last matching rule wins
categorize_wiki_content_LastWins(path) ==
    LET rev == [k \in 1 .. Len(WIKI_CATEGORIZATION) |->
                  WIKI_CATEGORIZATION[Len(WIKI_CATEGORIZATION) + 1 - k]]
    IN FirstCategory(rev, relpath(path))

\* lines 257-266
categorize_wiki_content(path) ==
    FirstCategory(WIKI_CATEGORIZATION, relpath(path))

CategorizerInit ==
    /\ kpc = "input"
    /\ \E n \in 1 .. MaxPathParts : file_path \in FilePaths(n)
    /\ category = "none"

CategorizeWikiContent ==
    /\ kpc = "input"
    /\ category' = categorize_wiki_content(file_path)
    /\ kpc' = "done"
    /\ UNCHANGED file_path
    /\ UNCHANGED <<uvars, bvars, cvars, wvars, dvars>>

CategorizeInit ==
    CategorizerInit /\ UIdle /\ BIdle /\ CIdle /\ WIdle /\ DIdle

CategorizeNext == CategorizeWikiContent

CategorizeSpec == CategorizeInit /\ [][CategorizeNext]_vars

(***************************************************************************)
(* Properties of the categorizer (CategorizeSpec)                          *)
(***************************************************************************)

\* the rules, by position in the declaration, with a pattern that matches
MatchingRules(path) ==
    {k \in 1 .. Len(WIKI_CATEGORIZATION) :
        \E p \in 1 .. Len(WIKI_CATEGORIZATION[k].patterns) :
           search(WIKI_CATEGORIZATION[k].patterns[p], relpath(path))}

\* C13: the category returned for a path is the category of the first rule,
\* in declaration order, that has a matching pattern, also when a later rule
\* matches the same path, and general-docs when no rule matches.
C13_FirstMatchWins ==
    kpc = "done" =>
        LET M == MatchingRules(file_path) IN
        IF M = {} THEN category = "general-docs"
        ELSE \E k \in M :
                /\ \A j \in M : k <= j
                /\ category = WIKI_CATEGORIZATION[k].category

\* projects/README.md matches the project rule and the meta rule
C13_Witness ==
    /\ kpc = "done"
    /\ file_path = <<DocsRoot, "projects/", "README", ".md">>
    /\ MatchingRules(file_path) = {1, 3}
    /\ category = "project-docs"

(***************************************************************************)
(* generate_lain_personality.py : parse_markdown_file, process_wiki_file   *)
(*                                                                         *)
(* A wiki file is [path, fault, title, sections]: the number of characters *)
(* of its title, and its sections in the order parse_markdown_file stores  *)
(* them, each with its name, the length raw of its text and the cleaned    *)
(* text that lines 271-276 make of it.  fault says what reading it does:   *)
(* "none", "unreadable" (the try block of parse_markdown_file raises) or   *)
(* "raises" (an exception leaves process_wiki_file).                       *)
(***************************************************************************)

\* line 347: len(section_content) < 100
MinSectionChars == 100
\* line 324: first_section[:500]
FirstSectionChars == 500
\* line 329: max_chars=800
SummaryMaxChars == 800
\* line 353: max_chars=900
SectionMaxChars == 900

\* lines 343-344
important_sections ==
    {"features", "architecture", "core_mission", "key_concepts",
     "overview", "getting_started", "installation", "usage"}

\* a text of one sentence and its full stop, n characters in all
OneSentence(n) == <<[body |-> n - 1, gap |-> 1]>>

\* the texts a section can have: raw characters and cleaned text.  A text
\* of more than 500 characters is plain prose (cleaning keeps all of it).
SectionTexts ==
    { [raw |-> 0, text |-> <<>>],
      [raw |-> 31, text |-> OneSentence(31)],
      [raw |-> MinSectionChars - 1, text |-> OneSentence(MinSectionChars - 1)],
      [raw |-> MinSectionChars, text |-> OneSentence(MinSectionChars)],
      \* prose of 41 characters and a code block
      [raw |-> MinSectionChars + 20, text |-> OneSentence(41)],
      [raw |-> FirstSectionChars + 100,
       text |-> OneSentence(FirstSectionChars + 100)],
      \* two sentences, together over both ceilings
      [raw |-> 1003,
       text |-> <<[body |-> 600, gap |-> 2], [body |-> 400, gap |-> 1]>>] }

SectionNames == {"overview", "features", "changelog"}

\* a section of lines 237-245; the overview, kept only when not blank, is
\* not empty
Sections ==
    {sec \in {[name |-> nm, raw |-> t.raw, text |-> t.text] :
                 nm \in SectionNames, t \in SectionTexts} :
        sec.name = "overview" => sec.raw > 0}

\* the sections dict, in insertion order: the names are distinct
SectionLists ==
    UNION {{ss \in [1 .. n -> Sections] :
               \A j, k \in 1 .. n : ss[j].name = ss[k].name => j = k} :
              n \in 0 .. MaxSections}

\* line 316: the characters of the title (the heading, or the file name)
TitleChoices == {5, 60}

WikiPaths ==
    {<<DocsRoot, "projects/", "README", ".md">>,
     <<DocsRoot, "guides/", "notes", ".md">>}

WikiFiles ==
    [path : WikiPaths, fault : {"none", "unreadable", "raises"},
     title : TitleChoices, sections : SectionLists]

\* lines 207-255: the parsed file, or {} when the try block raises
parse_markdown_file(file) ==
    IF file.fault = "unreadable"
    THEN [parsed |-> FALSE, title |-> 0, sections |-> <<>>]
    ELSE [parsed |-> TRUE, title |-> file.title, sections |-> file.sections]

\* line 312: os.path.basename
basename(path) == SubSeq(path, Len(path) - 1, Len(path))

\* the first n characters of a plain text
RECURSIVE Prefix(_, _)
Prefix(text, n) ==
    IF text = <<>> \/ n = 0 THEN <<>>
    ELSE LET h == Head(text) IN
         IF h.body + h.gap <= n
         THEN <<h>> \o Prefix(Tail(text), n - h.body - h.gap)
         ELSE IF h.body >= n THEN <<[body |-> n, gap |-> 0]>>
         ELSE <<[body |-> h.body, gap |-> n - h.body]>>

\* text + "..."
Ellipsis(text) ==
    [k \in 1 .. Len(text) |->
        IF k = Len(text) THEN [body |-> text[k].body, gap |-> text[k].gap + 3]
        ELSE text[k]]

HasOverview(sections) ==
    \E k \in 1 .. Len(sections) : sections[k].name = "overview"

\* lines 319-321: the position of the section whose text becomes
\* overview_text, 0 when there is no section
SummarySource(sections) ==
    IF HasOverview(sections)
    THEN CHOOSE k \in 1 .. Len(sections) : sections[k].name = "overview"
    ELSE IF sections # <<>> THEN 1 ELSE 0

\* lines 317-324: overview_text, as raw length and cleaned text
overview_text(sections) ==
    IF SummarySource(sections) = 0 THEN [raw |-> 0, text |-> <<>>]
    ELSE LET s == sections[SummarySource(sections)] IN
         IF ~HasOverview(sections) /\ s.raw > FirstSectionChars
         THEN [raw |-> FirstSectionChars + 3,
               text |-> Ellipsis(Prefix(s.text, FirstSectionChars))]
         ELSE [raw |-> s.raw, text |-> s.text]

\* line 328, cleaned: the title, ": " and the text
summary_text(title, text) ==
    IF text = <<>> THEN <<[body |-> title + 1, gap |-> 0]>>
    ELSE IF Head(text).body = 0
    THEN <<[body |-> title + 1, gap |-> 1 + Head(text).gap]>> \o Tail(text)
    ELSE <<[body |-> title + 2 + Head(text).body, gap |-> Head(text).gap]>>
         \o Tail(text)

\* lines 331-340 and 355-364: one record per chunk; importance in tenths
Records_(chunks_, category_, importance, file_name, content_type) ==
    [p \in 1 .. Len(chunks_) |->
        [text |-> chunks_[p],
         category |-> "wiki_" \o category_,
         importance |-> importance,
         source_file |-> file_name,
         content_type |-> content_type]]

\* lines 326-340
SummaryRecords(parsed, category_, file_name) ==
    LET overview == overview_text(parsed.sections) IN
    IF overview.raw = 0 THEN <<>>
    ELSE Records_(extract_meaningful_content(
                      summary_text(parsed.title, overview.text),
                      SummaryMaxChars),
                  category_, 9, file_name, "summary")

\* lines 347-364, for one section
OneSectionRecords(section, category_, file_name) ==
    IF section.raw = 0 \/ section.raw < MinSectionChars THEN <<>>
    ELSE Records_(extract_meaningful_content(section.text, SectionMaxChars),
                  category_,
                  IF section.name \in important_sections THEN 8 ELSE 6,
                  file_name, "section_" \o section.name)

\* lines 346-364: the loop over all the sections
RECURSIVE SectionRecords(_, _, _)
SectionRecords(sections, category_, file_name) ==
    IF sections = <<>> THEN <<>>
    ELSE OneSectionRecords(Head(sections), category_, file_name)
         \o SectionRecords(Tail(sections), category_, file_name)

\* mutant of process_wiki_file: the section that fed the summary is left out
\* of the loop of line 346
process_wiki_file_OnlyRemaining(file) ==
    LET parsed == parse_markdown_file(file)
        rest == [k \in 1 .. Len(parsed.sections) |->
                    IF k = SummarySource(parsed.sections)
                    THEN [parsed.sections[k] EXCEPT !.raw = 0]
                    ELSE parsed.sections[k]]
    IN IF ~parsed.parsed THEN <<>>
       ELSE SummaryRecords(parsed, categorize_wiki_content(file.path),
                           basename(file.path))
            \o SectionRecords(rest, categorize_wiki_content(file.path),
                              basename(file.path))

\* lines 305-366
process_wiki_file(file) ==
    LET parsed == parse_markdown_file(file) IN
    IF ~parsed.parsed THEN <<>>
    ELSE SummaryRecords(parsed, categorize_wiki_content(file.path),
                        basename(file.path))
         \o SectionRecords(parsed.sections,
                           categorize_wiki_content(file.path),
                           basename(file.path))

BuilderInit ==
    /\ wpc = "input"
    /\ wfile \in WikiFiles
    /\ embeddings = <<>>

\* the call returns, with the records or with [] for a file it cannot parse
ProcessWikiFile ==
    /\ wpc = "input"
    /\ wfile.fault # "raises"
    /\ embeddings' = process_wiki_file(wfile)
    /\ wpc' = "done"
    /\ UNCHANGED wfile
    /\ UNCHANGED <<uvars, bvars, cvars, kvars, dvars>>

\* an exception leaves the call: nothing is returned
ProcessWikiFileRaises ==
    /\ wpc = "input"
    /\ wfile.fault = "raises"
    /\ wpc' = "raised"
    /\ UNCHANGED <<wfile, embeddings>>
    /\ UNCHANGED <<uvars, bvars, cvars, kvars, dvars>>

BuildInit == BuilderInit /\ UIdle /\ BIdle /\ CIdle /\ KIdle /\ DIdle

BuildNext ==
    \/ ProcessWikiFile
    \/ ProcessWikiFileRaises

BuildSpec == BuildInit /\ [][BuildNext]_vars

(***************************************************************************)
(* Properties of the record builder (BuildSpec)                            *)
(***************************************************************************)

\* the chunks of the records of one content type, in the order emitted
TextsOfType(content_type) ==
    LET OfType(unit) == unit.content_type = content_type
        units == SelectSeq(embeddings, OfType)
    IN [p \in 1 .. Len(units) |-> units[p].text]

\* the position in the file of the section a record was made of, 0 for a
\* summary record
SectionOf(unit) ==
    IF unit.content_type = "summary" THEN 0
    ELSE CHOOSE k \in 1 .. Len(wfile.sections) :
            unit.content_type = "section_" \o wfile.sections[k].name

Built == wpc = "done" /\ wfile.fault = "none"

\* C19 as claimed: for every parsed document the builder emits the summary
\* unit from the title and the overview (or the truncated first section),
\* and then section units only for the remaining sections: the section
\* whose text went into the summary has no section unit, and a section of
\* fewer than 100 characters has none.
C19_OnlyRemainingSections ==
    Built =>
        \A k \in 1 .. Len(wfile.sections) :
            LET section == wfile.sections[k] IN
            /\ (k = SummarySource(wfile.sections)
                /\ TextsOfType("summary") # <<>>)
                  => TextsOfType("section_" \o section.name) = <<>>
            /\ section.raw < 100
                  => TextsOfType("section_" \o section.name) = <<>>

\* C19 as amended: for every parsed document the builder first emits the
\* summary units, the chunks of at most 800 characters of the title and the
\* overview (or the first 500 characters of the first section and "..."),
\* none when there is no section text; it then emits, in the order of the
\* sections, the chunks of at most 900 characters of every section of at
\* least 100 characters, the section whose text went into the summary
\* included; a section of fewer than 100 characters yields no unit.
C19_EverySectionOfHundred ==
    Built =>
        LET sections == wfile.sections
            overview == overview_text(sections)
        IN
        /\ TextsOfType("summary") =
              IF overview.raw = 0 THEN <<>>
              ELSE extract_meaningful_content(
                       summary_text(wfile.title, overview.text), 800)
        /\ \A k \in 1 .. Len(sections) :
              TextsOfType("section_" \o sections[k].name) =
                 IF sections[k].raw >= 100
                 THEN extract_meaningful_content(sections[k].text, 900)
                 ELSE <<>>
        /\ \A p \in 1 .. Len(embeddings) :
              \/ embeddings[p].content_type = "summary"
              \/ \E k \in 1 .. Len(sections) :
                    embeddings[p].content_type
                       = "section_" \o sections[k].name
        /\ \A p, q \in 1 .. Len(embeddings) :
              p < q => SectionOf(embeddings[p]) <= SectionOf(embeddings[q])

\* an overview of 100 characters is emitted as summary and again as section
\* unit; the section of 99 characters that follows it yields nothing
C19_Witness ==
    /\ Built
    /\ Len(wfile.sections) = 2
    /\ wfile.sections[1].name = "overview"
    /\ wfile.sections[1].raw = 100
    /\ wfile.sections[2].raw = 99
    /\ Len(embeddings) = 2
    /\ embeddings[1].content_type = "summary"
    /\ embeddings[2].content_type = "section_overview"

(***************************************************************************)
(* generate_lain_personality.py : process_memex_wiki                       *)
(***************************************************************************)

\* the names of the files the walk of lines 380-384 finds, in walk order
FileStems ==
    <<"README", "faq", "development", "glossary", "architecture",
      "resources", "deployment", "contributing">>

\* what such a file holds
FileSections ==
    { <<>>,
      <<[name |-> "overview", raw |-> MinSectionChars,
         text |-> OneSentence(MinSectionChars)]>>,
      <<[name |-> "features", raw |-> 1003,
         text |-> <<[body |-> 600, gap |-> 2], [body |-> 400, gap |-> 1]>>]>> }

\* lines 377-384: markdown_files
MarkdownFiles ==
    UNION {{fs \in [1 .. n -> [path : {<<DocsRoot, "guides/", stem, ".md">> :
                                          stem \in {FileStems[k] :
                                                      k \in 1 .. n}},
                               fault : {"none", "unreadable", "raises"},
                               title : {5},
                               sections : FileSections]] :
               \A k \in 1 .. n : fs[k].path[3] = FileStems[k]} :
              n \in 0 .. MaxFiles}

WikiInit ==
    /\ dpc = "loop"
    /\ markdown_files \in MarkdownFiles
    /\ di = 1
    /\ all_embeddings = <<>>

\* lines 388-393: process_wiki_file returns the records of the file
FileProcessed ==
    /\ dpc = "loop"
    /\ di <= Len(markdown_files)
    /\ markdown_files[di].fault = "none"
    /\ all_embeddings' = all_embeddings \o process_wiki_file(markdown_files[di])
    /\ di' = di + 1
    /\ UNCHANGED <<dpc, markdown_files>>
    /\ UNCHANGED <<uvars, bvars, cvars, kvars, wvars>>

\* lines 388-393 with lines 253-255 and 308-309: the file cannot be parsed,
\* process_wiki_file returns []
FileUnparsed ==
    /\ dpc = "loop"
    /\ di <= Len(markdown_files)
    /\ markdown_files[di].fault = "unreadable"
    /\ all_embeddings' = all_embeddings \o process_wiki_file(markdown_files[di])
    /\ di' = di + 1
    /\ UNCHANGED <<dpc, markdown_files>>
    /\ UNCHANGED <<uvars, bvars, cvars, kvars, wvars>>

\* mutant of FileRaises: the exception ends the pass
FileRaises_EndsPass ==
    /\ dpc = "loop"
    /\ di <= Len(markdown_files)
    /\ markdown_files[di].fault = "raises"
    /\ dpc' = "done"
    /\ UNCHANGED <<markdown_files, di, all_embeddings>>
    /\ UNCHANGED <<uvars, bvars, cvars, kvars, wvars>>

\* lines 394-395: process_wiki_file raises, the loop goes on
FileRaises ==
    /\ dpc = "loop"
    /\ di <= Len(markdown_files)
    /\ markdown_files[di].fault = "raises"
    /\ di' = di + 1
    /\ UNCHANGED <<dpc, markdown_files, all_embeddings>>
    /\ UNCHANGED <<uvars, bvars, cvars, kvars, wvars>>

\* lines 397-398
WikiReturns ==
    /\ dpc = "loop"
    /\ di > Len(markdown_files)
    /\ dpc' = "done"
    /\ UNCHANGED <<markdown_files, di, all_embeddings>>
    /\ UNCHANGED <<uvars, bvars, cvars, kvars, wvars>>

IngestInit == WikiInit /\ UIdle /\ BIdle /\ CIdle /\ KIdle /\ WIdle

IngestNext ==
    \/ FileProcessed
    \/ FileUnparsed
    \/ FileRaises
    \/ WikiReturns

IngestSpec == IngestInit /\ [][IngestNext]_vars

(***************************************************************************)
(* Properties of the ingestion pass (IngestSpec)                           *)
(***************************************************************************)

Sound(file) == file.fault = "none"

\* the records of a pass over files none of which fails
RECURSIVE AllRecords(_)
AllRecords(files) ==
    IF files = <<>> THEN <<>>
    ELSE process_wiki_file(Head(files)) \o AllRecords(Tail(files))

\* C14: a document whose parsing or processing fails contributes no record,
\* the pass ends only after the last document, and the records it has
\* gathered are those of the same pass without the failing documents.
C14_FailingFileAsIfAbsent ==
    /\ dpc = "done" => di = Len(markdown_files) + 1
    /\ dpc \in {"loop", "done"} =>
          /\ all_embeddings =
                AllRecords(SelectSeq(SubSeq(markdown_files, 1, di - 1), Sound))
          /\ \A k \in 1 .. Len(markdown_files) :
                ~Sound(markdown_files[k]) =>
                    \A p \in 1 .. Len(all_embeddings) :
                       all_embeddings[p].source_file
                          # basename(markdown_files[k].path)

\* a pass over a file that fails and a later file that yields records
C14_Witness ==
    /\ dpc = "done"
    /\ Len(markdown_files) = 2
    /\ markdown_files[1].fault = "raises"
    /\ markdown_files[2].fault = "none"
    /\ all_embeddings # <<>>
    /\ all_embeddings = process_wiki_file(markdown_files[2])

(***************************************************************************)
(* Further properties of the single-mode upload run (Spec)                 *)
(***************************************************************************)

Prompts == {"ask_retry", "ask_continue"}

\* C16 as claimed: every delivery failure that is a timeout or a failure of
\* the transport process (dfx exits non-zero or cannot be run) is given the
\* retry/skip/abort decision: no such failure leads to the continue/abort
\* decision.
C16_ProcessFailureIsTransient ==
    pc = "ask_continue" => lastkind \notin {"timeout", "nonzero", "exception"}

\* C16 as amended: the failure of the first delivery of a record is given
\* the retry/skip/abort decision exactly when its message contains "Timeout"
\* or "network", which every timeout does, and the continue/abort decision
\* otherwise; the failure of a retry is given no decision.
C16_TransientByMessage ==
    [][/\ (pc = "call" /\ pc' # "call") =>
             /\ lastkind' = "exit0" => pc' \notin Prompts
             /\ lastkind' # "exit0" =>
                   /\ pc' \in Prompts
                   /\ pc' = "ask_retry" <=>
                         (message'.timeoutWord \/ message'.networkWord)
                   /\ lastkind' = "timeout" => pc' = "ask_retry"
       /\ (pc = "retry_call" /\ pc' # "retry_call") => pc' \notin Prompts
      ]_vars

\* a non-zero exit of dfx whose stderr speaks of the network
C16_Witness ==
    /\ pc = "ask_retry"
    /\ lastkind = "nonzero"
    /\ message.networkWord
    /\ ~message.timeoutWord

\* C17 as claimed: the status of each record only follows PENDING ->
\* IN_FLIGHT -> SUCCESS or FAILED, and SUCCESS and FAILED are terminal.
C17_FailedIsTerminal ==
    [][\A j \in Records :
          status'[j] # status[j] =>
             <<status[j], status'[j]>> \in
                {<<"PENDING", "IN_FLIGHT">>, <<"IN_FLIGHT", "SUCCESS">>,
                 <<"IN_FLIGHT", "FAILED">>}
      ]_vars

\* C17 as amended: the status of each record follows PENDING -> IN_FLIGHT ->
\* SUCCESS or FAILED, and a FAILED record goes back to IN_FLIGHT once, when
\* its first failure was classified transient and the operator answers "y"
\* at the retry prompt; SUCCESS is terminal, FAILED is terminal otherwise,
\* and a record before start_index or after an abort stays PENDING.
C17_FailedResentOnRetry ==
    [][/\ \A j \in Records :
             status'[j] # status[j] =>
                \/ <<status[j], status'[j]>> \in
                      {<<"PENDING", "IN_FLIGHT">>, <<"IN_FLIGHT", "SUCCESS">>,
                       <<"IN_FLIGHT", "FAILED">>}
                \/ /\ <<status[j], status'[j]>> = <<"FAILED", "IN_FLIGHT">>
                   /\ pc = "ask_retry"
                   /\ j = i
                   /\ results[j] = <<"transient">>
       /\ \A j \in Records :
             (j < start_index' \/ (aborted' /\ j > i')) =>
                status'[j] = "PENDING"
      ]_vars

\* a record counted as failed, sent again and recounted as a success, in a
\* run that the operator aborts before the last record
C17_Witness ==
    /\ aborted
    /\ \E j \in Records :
          /\ results[j] = <<"transient", "ok">>
          /\ status[j] = "SUCCESS"
    /\ \E j \in Records : j > i /\ status[j] = "PENDING"

(***************************************************************************)
(* An upload run in either mode: upload_embeddings.py main(), or           *)
(* upload_to_canister_batch of generate_lain_personality.py                *)
(***************************************************************************)

UploadInit == Init \/ BatchInit

UploadNext == Next \/ BatchNext

UploadSpec == UploadInit /\ [][UploadNext]_vars

\* the records with a single-mode call in flight
InFlight == {j \in Records : status[j] = "IN_FLIGHT"}

\* the calls of the batch-mode log that have not returned
Unanswered == {p \in 1 .. Len(blog) : blog[p].res = "pending"}

\* at most one remote call is in flight, in either mode
OneCallAtATime ==
    /\ Cardinality(InFlight) <= 1
    /\ InFlight # {} <=> pc \in {"call", "retry_call"}
    /\ InFlight # {} => InFlight = {i}
    /\ Cardinality(Unanswered) <= 1
    /\ \A p \in Unanswered : p = Len(blog)

\* single mode: the records sent are those from start_index to i, none
\* passed over, each sent once or, after a transient failure, twice
SingleInListOrder ==
    \A j \in Records :
        /\ calls[j] > 0 => (start_index <= j /\ j <= i)
        /\ (start_index <= j /\ j < i) => calls[j] >= 1
        /\ calls[j] <= 2
        /\ calls[j] = 2 => results[j][1] = "transient"

\* C18 as claimed: at most one remote call is in flight at any time, and the
\* record indices at which delivery is invoked form a non-decreasing
\* sequence: no call is made for a record that lies before a record of an
\* earlier call.
C18_IndicesNeverGoBack ==
    /\ OneCallAtATime
    /\ SingleInListOrder
    /\ \A p, q \in 1 .. Len(blog) :
          p < q => blog[p].hi - 1 <= blog[q].lo

\* C18 as amended: at most one remote call is in flight at any time.  In
\* single mode the indices at which delivery is invoked never decrease, an
\* index repeats only for the one retry of the same record and none is
\* passed over between start_index and the last index attempted.  In batch
\* mode the calls follow the list, each starting where the one before it
\* ended, except that the records of a batch that failed with the
\* oversized-payload error are sent again one by one from the first record
\* of that batch.
C18_SequentialInListOrder ==
    [][/\ OneCallAtATime'
       /\ SingleInListOrder'
       /\ i' >= i
       /\ \A j \in Records : calls'[j] > calls[j] => j = i'
       /\ \A p, q \in 1 .. Len(blog') :
             p < q =>
                /\ blog'[p].lo <= blog'[q].lo
                /\ blog'[p].lo = blog'[q].lo =>
                      /\ blog'[p].res = "E2BIG"
                      /\ blog'[q].kind = "single"
                      /\ q = p + 1
       /\ \A p \in 1 .. Len(blog') :
             IF p = 1 THEN blog'[p].lo = 0
             ELSE \/ blog'[p].lo = blog'[p - 1].hi
                  \/ /\ blog'[p - 1].res = "E2BIG"
                     /\ blog'[p].lo = blog'[p - 1].lo
      ]_vars

\* a batch of three records was too large; its records are being sent again
\* one by one and the second of them is in flight
C18_Witness ==
    /\ bpc = "single_call"
    /\ \E p \in Oversized :
          /\ blog[p].hi - blog[p].lo = 3
          /\ Len(blog) = p + 2
          /\ blog[p + 1].lo = blog[p].lo
          /\ blog[p + 2].res = "pending"

=============================================================================
